---- MODULE Spec2Model ----
(***************************************************************************)
(* Model of the data pipeline of video_blip/data:                          *)
(*   - NarratedActionClipSampler (ego4d.py): the per-video clip cursor;     *)
(*   - filter_action, get_structured_noun and the video index of           *)
(*     Ego4dFHOMainDataset (ego4d.py);                                      *)
(*   - the verb/noun buckets and the in-context example selection of        *)
(*     FrameInterleavedDataset (frame.py), which                            *)
(*     Ego4dFHOMainFrameInterleavedDataset (ego4d.py) repeats line by line. *)
(* Times are whole seconds.  Python lists are 0-based: a list l is the      *)
(* sequence whose element at TLA+ position p + 1 is l[p].                   *)
(***************************************************************************)
EXTENDS Integers, Sequences, FiniteSets, TLC

----------------------------------------------------------------------------
(* Bounds of the model *)

\* most narrated actions kept for one video
MaxActions == 3
\* most videos the dataset iterates over
MaxVideos == 2
\* most rows of a narrated_actions.csv
MaxPool == 3
\* most narrated actions annotated for one video
MaxRawActions == 3
\* largest num_in_context_examples_per_sample
MaxK == 2
\* most frames an annotated action carries
MaxFrames == 2
\* most boxes the frames of an annotated action carry together
MaxBoxes == 2

(* Input domains *)

\* narration_timestamp_sec of an action
TimeStamps == {0, 3, 6, 11}
\* video_metadata.duration_sec of a video
Durations == {5, 8, 12}
\* the structured_verb and structured_noun columns of a csv row
Rows ==
    {[structured_verb |-> "take", structured_noun |-> "cup"],
     [structured_verb |-> "take", structured_noun |-> ""],
     [structured_verb |-> "[other]", structured_noun |-> "cup"],
     [structured_verb |-> "", structured_noun |-> "bowl"]}
\* verb_noun_ratio as <<numerator, denominator>>: 0, 1/2 and 1
Ratios == {<<0, 1>>, <<1, 2>>, <<1, 1>>}
\* the callers that may run __getitem__ on one dataset object
Workers == {"w1", "w2"}
\* narration_text of an annotated action, as its characters
Texts == {<<"C", " ", "x">>, <<"C", "x">>, <<"x", " ", "C", " ">>, <<>>}

\* frame["frame_type"]
FrameTypes == {"pnr_frame", "pre_frame"}
\* box["object_type"]
ObjectTypes == {"object_of_change", "left_hand"}

\* the video ids of the annotation file
Uids == {"a", "b"}
\* the places of the annotated intervals of a video
IntervalIds == {1, 2}

----------------------------------------------------------------------------
(* Generic helpers *)


Max(a, b) == IF a >= b THEN a ELSE b

Min(a, b) == IF a <= b THEN a ELSE b

Range(s) == {s[p] : p \in DOMAIN s}

\* the value None, and a present value v, of an optional field
None == <<>>

Some(v) == <<v>>

----------------------------------------------------------------------------
(* State *)

VARIABLES
    \* which object or function is exercised: "sampler", "samplers", "index",
    \* "video_index", "filter_action", "get_structured_noun", "selector"
    component,
    \* NarratedActionClipSampler.random
    random,
    \* NarratedActionClipSampler.sample_clip_indices: None or Some(list)
    sample_clip_indices,
    \* ClipSampler._current_clip_index
    current_clip_index,
    \* the annotation dict of the video being iterated, None before the first
    video,
    \* outcome of the last __call__: a ClipInfo, an IndexError, or nothing yet
    ret,
    \* the record _transform emitted for the last ClipInfo
    item,
    \* history: clip indices returned so far in the pass over `video`
    visited,
    \* history: the index list and the cursor the last __call__ read
    last_order,
    last_pos,
    \* history: number of videos whose pass is complete
    videos_done,
    \* whether the two consumers call one sampler object, or each its own
    share,
    \* the sampler objects: for each, its cursor and its index list
    instances,
    \* per consumer, the annotation dict of the video it iterates
    worker_video,
    \* per consumer, the outcome of its last __call__
    worker_ret,
    \* history, per consumer: the clip indices returned to it so far
    worker_visited,
    \* FrameInterleavedDataset.in_context_example_narrated_actions_dir is None
    in_context_dir_is_none,
    \* FrameInterleavedDataset._dataset.data: the rows of narrated_actions.csv
    dataset_data,
    \* FrameInterleavedDataset._in_context_dataset.data
    in_context_data,
    \* FrameInterleavedDataset.num_in_context_examples_per_sample
    num_in_context_examples_per_sample,
    \* FrameInterleavedDataset.verb_noun_ratio, as <<numerator, denominator>>
    verb_noun_ratio,
    \* FrameInterleavedDataset.structured_verb_buckets: label -> set of indices
    structured_verb_buckets,
    \* FrameInterleavedDataset.structured_noun_buckets
    structured_noun_buckets,
    \* the callers of __getitem__ (data loading workers)
    workers,
    \* per caller, where its running __getitem__ is: "idle", "loop", "done"
    pc,
    \* per caller, the locals of its running __getitem__
    index,
    verb_bucket,
    noun_bucket,
    examples,
    \* per caller, item["items"] of its running __getitem__
    items,
    \* history, per caller: what the last loop iteration found and asked for
    requested,
    \* history: the bucket maps as __init__ left them
    built_verb_buckets,
    built_noun_buckets,
    \* the narrated actions of a video of the annotation file, its annotated
    \* intervals one after another
    raw_actions,
    \* how many of them the list comprehension of __init__ has read
    scan_pos,
    \* the "narrated_actions" list the comprehension has built so far
    index_narrated_actions,
    \* history: the places in raw_actions of the entries of that list
    kept,
    \* history: what filter_action returned for the action read last
    last_filter,
    \* the annotated action a function of the module is called on by itself
    fn_arg,
    \* what that call returned or raised
    fn_result,
    \* annotations["videos"] by video_uid (video_dict)
    annotations,
    \* the video ids of split_data["videos"], in its iteration order
    split_videos,
    \* the list __init__ hands to LabeledVideoDataset, as built so far
    labeled_video_paths

sharedVars == <<share, instances, worker_video, worker_ret, worker_visited>>

samplerVars == <<random, sample_clip_indices, current_clip_index, video, ret,
                 item, visited, last_order, last_pos, videos_done, sharedVars>>

listVars == <<raw_actions, scan_pos, index_narrated_actions, kept,
              last_filter>>

callVars == <<fn_arg, fn_result>>

manifestVars == <<annotations, split_videos, labeled_video_paths>>

indexVars == <<listVars, callVars, manifestVars>>

selectorVars == <<in_context_dir_is_none, dataset_data, in_context_data,
                  num_in_context_examples_per_sample, verb_noun_ratio,
                  structured_verb_buckets, structured_noun_buckets, workers,
                  pc, index, verb_bucket, noun_bucket, examples, items,
                  requested,
                  built_verb_buckets, built_noun_buckets>>

----------------------------------------------------------------------------
(* NarratedActionClipSampler *)

\* ClipSampler._clip_duration, set by super().__init__(8)
ClipDuration == 8

\* the indices from n - 1 down to 0
RangeListDescending(n) == [p \in 1..n |-> n - p]

\* list(range(n))
RangeList(n) == [p \in 1..n |-> p - 1]

\* a shuffle that draws every position independently (with replacement)
ShuffleWithReplacement(l) == [DOMAIN l -> Range(l)]

\* random.shuffle(l): every rearrangement of l is a possible outcome
Shuffle(l) ==
    {m \in [DOMAIN l -> Range(l)] : \A p, q \in DOMAIN l : p # q => m[p] # m[q]}

\* the index lists __call__ may hold after its first-call block
IndexLists(indices, rnd, narrated_actions) ==
    IF indices = None
    THEN IF rnd
         THEN Shuffle(RangeList(Len(narrated_actions)))
         ELSE {RangeList(Len(narrated_actions))}
    ELSE {indices[1]}

\* a window whose start is not moved back when the end is clamped
ClipWindowStartKept(t, duration_sec) ==
    LET start == Max(t - ClipDuration \div 2, 0)
        end   == start + ClipDuration
    IN  IF end > duration_sec
        THEN [clip_start_sec |-> start, clip_end_sec |-> duration_sec]
        ELSE [clip_start_sec |-> start, clip_end_sec |-> end]

\* a window whose end is not clamped to the video duration
ClipWindowUnclamped(t, duration_sec) ==
    LET start == Max(t - ClipDuration \div 2, 0)
    IN  [clip_start_sec |-> start, clip_end_sec |-> start + ClipDuration]

\* a window that begins at the narration time
ClipWindowFromTimestamp(t, duration_sec) ==
    LET start == Max(t, 0)
        end   == start + ClipDuration
    IN  IF end > duration_sec
        THEN [clip_start_sec |-> duration_sec - ClipDuration,
              clip_end_sec   |-> duration_sec]
        ELSE [clip_start_sec |-> start, clip_end_sec |-> end]

\* a window whose start is clamped to 0 as a final guard
ClipWindowStartClamped(t, duration_sec) ==
    LET start == Max(t - ClipDuration \div 2, 0)
        end   == start + ClipDuration
    IN  IF end > duration_sec
        THEN [clip_start_sec |-> Max(duration_sec - ClipDuration, 0),
              clip_end_sec   |-> duration_sec]
        ELSE [clip_start_sec |-> start, clip_end_sec |-> end]

\* the clip window around narration time t in a video of duration_sec
ClipWindow(t, duration_sec) ==
    LET start == Max(t - ClipDuration \div 2, 0)
        end   == start + ClipDuration
    IN  IF end > duration_sec
        THEN [clip_start_sec |-> duration_sec - ClipDuration,
              clip_end_sec   |-> duration_sec]
        ELSE [clip_start_sec |-> start, clip_end_sec |-> end]

\* a reset that unsets the index list but leaves the cursor where it is
ResetListOnly(st) == [st EXCEPT !.sample_clip_indices = None]

\* a reset that rewinds the cursor but keeps the index list
ResetCursorOnly(st) == [st EXCEPT !.current_clip_index = 0]

\* NarratedActionClipSampler.reset
Reset(st) == [current_clip_index |-> 0, sample_clip_indices |-> None]

\* a ClipInfo that carries the position in the shuffled order
ClipInfoAtCursor(window, clip_index, pos, is_last_clip) ==
    [status |-> "ClipInfo",
     clip_start_sec |-> window.clip_start_sec,
     clip_end_sec |-> window.clip_end_sec,
     clip_index |-> pos, aug_index |-> 0, is_last_clip |-> is_last_clip]

\* the ClipInfo __call__ returns; pos is the cursor it read
ClipInfo(window, clip_index, pos, is_last_clip) ==
    [status |-> "ClipInfo",
     clip_start_sec |-> window.clip_start_sec,
     clip_end_sec |-> window.clip_end_sec,
     clip_index |-> clip_index, aug_index |-> 0, is_last_clip |-> is_last_clip]

\* no call made yet for the current video
NoRet ==
    [status |-> "none", clip_start_sec |-> 0, clip_end_sec |-> 0,
     clip_index |-> 0, aug_index |-> 0, is_last_clip |-> FALSE]

\* list index out of range, raised by a subscript of __call__
IndexError ==
    [status |-> "IndexError", clip_start_sec |-> 0, clip_end_sec |-> 0,
     clip_index |-> 0, aug_index |-> 0, is_last_clip |-> FALSE]

\* nothing emitted
NoItem ==
    [clip_index |-> 0, clip_start_sec |-> 0, clip_end_sec |-> 0,
     narration_timestamp_sec |-> 0, narration_text |-> 0]

\* Ego4dFHOMainDataset.__init__._transform: the clip's record is merged with
\* narrated_actions[item["clip_index"]]
Transform(clip, narrated_actions) ==
    IF clip.clip_index >= Len(narrated_actions)
    THEN NoItem
    ELSE LET action == narrated_actions[clip.clip_index + 1]
         IN  [clip_index |-> clip.clip_index,
              clip_start_sec |-> clip.clip_start_sec,
              clip_end_sec |-> clip.clip_end_sec,
              narration_timestamp_sec |-> action.narration_timestamp_sec,
              narration_text |-> action.narration_text]

\* the narrated actions a video can carry after filtering: the text of an
\* action names its place in the annotation
ActionLists(lo) ==
    UNION {{[p \in 1..n |->
               [narration_timestamp_sec |-> ts[p], narration_text |-> p]] :
            ts \in [1..n -> TimeStamps]} : n \in lo..MaxActions}

\* the annotation dicts of the videos with at least lo narrated actions
Videos(lo) ==
    {[narrated_actions |-> acts, video_metadata |-> [duration_sec |-> d]] :
        acts \in ActionLists(lo), d \in Durations}

\* no sampler object is called by two consumers
SharedOff ==
    /\ share = FALSE
    /\ instances = <<>>
    /\ worker_video = <<>>
    /\ worker_ret = <<>>
    /\ worker_visited = <<>>

\* the sampler right after NarratedActionClipSampler.__init__
SamplerNew ==
    /\ SharedOff
    /\ random \in BOOLEAN
    /\ sample_clip_indices = None
    /\ current_clip_index = 0
    /\ video = None
    /\ ret = NoRet
    /\ item = NoItem
    /\ visited = <<>>
    /\ last_order = <<>>
    /\ last_pos = 0
    /\ videos_done = 0

\* no sampler was constructed
SamplerOff ==
    /\ SharedOff
    /\ random = FALSE
    /\ sample_clip_indices = None
    /\ current_clip_index = 0
    /\ video = None
    /\ ret = NoRet
    /\ item = NoItem
    /\ visited = <<>>
    /\ last_order = <<>>
    /\ last_pos = 0
    /\ videos_done = 0

\* the dataset opens the next video of the split
NextVideo ==
    /\ component = "sampler"
    /\ video = None
    /\ videos_done < MaxVideos
    /\ \E v \in Videos(1) : video' = Some(v)
    /\ UNCHANGED <<component, random, sample_clip_indices, current_clip_index,
                   ret, item, visited, last_order, last_pos, videos_done>>
    /\ UNCHANGED <<sharedVars, selectorVars, indexVars>>

\* the dataset opens the next video of the split, which may be one all of
\* whose narrated actions were filtered out
NextVideoOrEmpty ==
    /\ component = "sampler"
    /\ video = None
    /\ videos_done < MaxVideos
    /\ \E v \in Videos(0) : video' = Some(v)
    /\ UNCHANGED <<component, random, sample_clip_indices, current_clip_index,
                   ret, item, visited, last_order, last_pos, videos_done>>
    /\ UNCHANGED <<sharedVars, selectorVars, indexVars>>

\* the caller catches the IndexError of a call and goes on to the next video;
\* nothing touches the sampler
SkipVideo ==
    /\ component = "sampler"
    /\ video # None
    /\ ret.status = "IndexError"
    /\ video' = None
    /\ ret' = NoRet
    /\ item' = NoItem
    /\ visited' = <<>>
    /\ last_order' = <<>>
    /\ last_pos' = 0
    /\ videos_done' = videos_done + 1
    /\ UNCHANGED <<component, random, sample_clip_indices, current_clip_index>>
    /\ UNCHANGED <<sharedVars, selectorVars, indexVars>>

\* the dataset closes the video whose last clip was flagged is_last_clip
CloseVideo ==
    /\ component = "sampler"
    /\ video # None
    /\ ret.status = "ClipInfo"
    /\ ret.is_last_clip
    /\ video' = None
    /\ ret' = NoRet
    /\ item' = NoItem
    /\ visited' = <<>>
    /\ last_order' = <<>>
    /\ last_pos' = 0
    /\ UNCHANGED <<component, random, sample_clip_indices, current_clip_index,
                   videos_done>>
    /\ UNCHANGED <<sharedVars, selectorVars, indexVars>>

\* what __call__ does once the index list is indices: the sampler it leaves,
\* what it returns or raises, and the list and cursor it read
CallWithList(st, indices, annotation) ==
    LET narrated_actions == annotation.narrated_actions
    IN  IF \/ st.current_clip_index >= Len(indices)
           \/ indices[st.current_clip_index + 1] >= Len(narrated_actions)
        THEN \* a subscript raises: the call ends there
             [state |-> [current_clip_index |-> st.current_clip_index,
                         sample_clip_indices |-> Some(indices)],
              ret |-> IndexError,
              order |-> indices,
              pos |-> st.current_clip_index]
        ELSE LET clip_index == indices[st.current_clip_index + 1]
                 narrated_action == narrated_actions[clip_index + 1]
                 cursor == st.current_clip_index + 1
                 is_last_clip == (cursor = Len(indices))
                 window == ClipWindow(
                     narrated_action.narration_timestamp_sec,
                     annotation.video_metadata.duration_sec)
                 called == [current_clip_index |-> cursor,
                            sample_clip_indices |-> Some(indices)]
             IN  [state |-> IF is_last_clip THEN Reset(called) ELSE called,
                  ret |-> ClipInfo(window, clip_index, st.current_clip_index,
                                   is_last_clip),
                  order |-> indices,
                  pos |-> st.current_clip_index]

\* the outcomes of NarratedActionClipSampler.__call__ on a sampler in state
\* st, for the annotation dict of a video
CallOutcomes(st, rnd, annotation) ==
    {CallWithList(st, indices, annotation) :
        indices \in IndexLists(st.sample_clip_indices, rnd,
                               annotation.narrated_actions)}

\* NarratedActionClipSampler.__call__ for the current video, followed by the
\* dataset's _transform of the clip
SamplerCall ==
    /\ component = "sampler"
    /\ video # None
    /\ ret.status # "IndexError"
    /\ ~(ret.status = "ClipInfo" /\ ret.is_last_clip)
    /\ \E out \in CallOutcomes(
                 [current_clip_index |-> current_clip_index,
                  sample_clip_indices |-> sample_clip_indices],
                 random, video[1]) :
          /\ last_order' = out.order
          /\ last_pos' = out.pos
          /\ current_clip_index' = out.state.current_clip_index
          /\ sample_clip_indices' = out.state.sample_clip_indices
          /\ ret' = out.ret
          /\ IF out.ret.status = "IndexError"
             THEN /\ item' = NoItem
                  /\ UNCHANGED <<visited, videos_done>>
             ELSE /\ item' = Transform(out.ret, video[1].narrated_actions)
                  /\ visited' = Append(visited, out.ret.clip_index)
                  /\ videos_done' = IF out.ret.is_last_clip
                                     THEN videos_done + 1
                                     ELSE videos_done
    /\ UNCHANGED <<component, random, video>>
    /\ UNCHANGED <<sharedVars, selectorVars, indexVars>>

\* the videos two consumers iterate at the same time: one to MaxActions
\* actions, all narrated at second 6 of a 12 second video
PassVideos ==
    {v \in Videos(1) :
        /\ v.video_metadata.duration_sec = 12
        /\ \A p \in DOMAIN v.narrated_actions :
               v.narrated_actions[p].narration_timestamp_sec = 6}

\* two consumers that call the sampler of the first
InstanceOfFirst(w, shared) == "w1"

\* the sampler object consumer w calls: the one object when it is shared,
\* else the object of w's own dataset
InstanceOf(w, shared) == IF shared THEN "w1" ELSE w

\* two consumers, each about to iterate a video of its own, through one
\* sampler object or through one each
SharedNew ==
    /\ share \in BOOLEAN
    /\ random \in BOOLEAN
    /\ instances = [i \in Workers |->
                        [current_clip_index |-> 0, sample_clip_indices |-> None]]
    /\ worker_video \in [Workers -> PassVideos]
    /\ worker_ret = [w \in Workers |-> NoRet]
    /\ worker_visited = [w \in Workers |-> <<>>]
    /\ sample_clip_indices = None
    /\ current_clip_index = 0
    /\ video = None
    /\ ret = NoRet
    /\ item = NoItem
    /\ visited = <<>>
    /\ last_order = <<>>
    /\ last_pos = 0
    /\ videos_done = 0

\* NarratedActionClipSampler.__call__ made by consumer w for its video, as
\* one atomic step, on the sampler object w uses
WorkerCall(w) ==
    /\ component = "samplers"
    /\ worker_ret[w].status # "IndexError"
    /\ ~(worker_ret[w].status = "ClipInfo" /\ worker_ret[w].is_last_clip)
    /\ LET i == InstanceOf(w, share)
       IN  \E out \in CallOutcomes(instances[i], random, worker_video[w]) :
             /\ instances' = [instances EXCEPT ![i] = out.state]
             /\ worker_ret' = [worker_ret EXCEPT ![w] = out.ret]
             /\ worker_visited' =
                    IF out.ret.status = "IndexError"
                    THEN worker_visited
                    ELSE [worker_visited EXCEPT
                              ![w] = Append(@, out.ret.clip_index)]
    /\ UNCHANGED <<component, share, worker_video, random, sample_clip_indices,
                   current_clip_index, video, ret, item, visited, last_order,
                   last_pos, videos_done>>
    /\ UNCHANGED <<selectorVars, indexVars>>

----------------------------------------------------------------------------
(* FrameInterleavedDataset (frame.py);                                      *)
(* Ego4dFHOMainFrameInterleavedDataset (ego4d.py 235-345) is the same code  *)

\* the csv tables with 1..MaxPool rows
Tables == UNION {[1..n -> Rows] : n \in 1..MaxPool}

\* the tables of the main dataset when the in-context examples are read from
\* a directory of their own: one row
TargetTables == [1..1 -> Rows]

\* an empty defaultdict(set)
EmptyBuckets == [l \in {} |-> {}]

\* buckets[label].add(i) on a defaultdict(set)
AddToBucket(buckets, label, i) ==
    [l \in DOMAIN buckets \cup {label} |->
        IF l = label
        THEN (IF l \in DOMAIN buckets THEN buckets[l] ELSE {}) \cup {i}
        ELSE buckets[l]]

\* a verb test that lets "[other]" through
VerbIsBucketedOtherKept(label) == label # ""

\* whether __init__ puts a row with this structured_verb into a verb bucket
VerbIsBucketed(label) == label \notin {"", "[other]"}

\* whether __init__ puts a row with this structured_noun into a noun bucket
NounIsBucketed(label) == label # ""

\* the verb buckets after the loop of __init__ has read data[0..n-1]
RECURSIVE VerbBuckets(_, _)
VerbBuckets(data, n) ==
    IF n = 0
    THEN EmptyBuckets
    ELSE LET before == VerbBuckets(data, n - 1)
             datapoint == data[n]
         IN  IF VerbIsBucketed(datapoint.structured_verb)
             THEN AddToBucket(before, datapoint.structured_verb, n - 1)
             ELSE before

\* the noun buckets after the loop of __init__ has read data[0..n-1]
RECURSIVE NounBuckets(_, _)
NounBuckets(data, n) ==
    IF n = 0
    THEN EmptyBuckets
    ELSE LET before == NounBuckets(data, n - 1)
             datapoint == data[n]
         IN  IF NounIsBucketed(datapoint.structured_noun)
             THEN AddToBucket(before, datapoint.structured_noun, n - 1)
             ELSE before

\* buckets.get(label, set())
BucketGet(buckets, label) ==
    IF label \in DOMAIN buckets THEN buckets[label] ELSE {}

\* a copy that keeps the target's own index
BucketCopyWithTarget(buckets, label, idx, same_pool) ==
    BucketGet(buckets, label)

\* the per-call copy of the target's bucket, without the target's own index
\* when the in-context pool is the main dataset
BucketCopy(buckets, label, idx, same_pool) ==
    {i \in BucketGet(buckets, label) : ~(same_pool /\ i = idx)}

\* _sample: the sets random.sample may draw; the whole bucket when it holds
\* fewer than k
SampleOutcomes(bucket, k) ==
    IF Cardinality(bucket) >= k
    THEN {samples \in SUBSET bucket : Cardinality(samples) = k}
    ELSE {bucket}

\* `bucket -= samples` applied to the canonical bucket of the label
RemoveDrawnFromCanonical(buckets, label, samples) ==
    IF label \in DOMAIN buckets
    THEN [buckets EXCEPT ![label] = @ \ samples]
    ELSE buckets

\* the canonical buckets after `bucket -= samples` in _sample: bucket is the
\* set built by the call, so the canonical map is as before
RemoveDrawn(buckets, label, samples) == buckets

\* int(num_additional_examples * self.verb_noun_ratio)
IntOfProduct(n, ratio) == (n * ratio[1]) \div ratio[2]

\* a split that rounds the verb share up
NumVerbExamplesRoundedUp(need, verbs, nouns, ratio) ==
    IF verbs # {} /\ nouns # {}
    THEN (need * ratio[1] + ratio[2] - 1) \div ratio[2]
    ELSE IF verbs = {} THEN 0 ELSE need

\* num_verb_examples of one loop iteration
NumVerbExamples(need, verbs, nouns, ratio) ==
    IF verbs # {} /\ nouns # {}
    THEN IntOfProduct(need, ratio)
    ELSE IF verbs = {} THEN 0 ELSE need

\* a split that truncates the noun share by itself
NumNounExamplesTruncated(need, verbs, nouns, ratio) ==
    IF verbs # {} /\ nouns # {}
    THEN (need * (ratio[2] - ratio[1])) \div ratio[2]
    ELSE IF verbs = {} THEN need ELSE 0

\* num_noun_examples of one loop iteration
NumNounExamples(need, verbs, nouns, ratio) ==
    IF verbs # {} /\ nouns # {}
    THEN need - NumVerbExamples(need, verbs, nouns, ratio)
    ELSE IF verbs = {} THEN need ELSE 0

\* a rest that leaves the target index out whatever the pool
RestWithoutIndex(n, idx, same_pool, drawn) ==
    {i \in 0..(n - 1) : ~(i = idx \/ i \in drawn)}

\* a rest that keeps the target in
RestWithTarget(n, idx, same_pool, drawn) ==
    {i \in 0..(n - 1) : i \notin drawn}

\* the rest of the in-context dataset: not the target (same pool) and not
\* drawn yet
Rest(n, idx, same_pool, drawn) ==
    {i \in 0..(n - 1) : ~((same_pool /\ i = idx) \/ i \in drawn)}

\* random.sample(examples, len(examples)): the orders the set may be put in
Orderings(S) ==
    {o \in [1..Cardinality(S) -> S] : \A p, q \in DOMAIN o : p # q => o[p] # o[q]}

\* self._in_context_dataset[i]; the in-context dataset is the main dataset
\* object when no directory was given for it
InContextItem(i, same_pool) ==
    [dataset |-> IF same_pool THEN "_dataset" ELSE "_in_context_dataset",
     index |-> i]

\* self._dataset[index]
Datapoint(idx) == [dataset |-> "_dataset", index |-> idx]

\* items with the main datapoint put first
ItemsTargetFirst(order, idx, same_pool) ==
    <<Datapoint(idx)>> \o [p \in DOMAIN order |-> InContextItem(order[p], same_pool)]

\* item["items"]: the in-context examples in the drawn order, then the main
\* datapoint
Items(order, idx, same_pool) ==
    [p \in DOMAIN order |-> InContextItem(order[p], same_pool)] \o <<Datapoint(idx)>>

\* _sample raises ValueError even when the bucket holds fewer than k
SampleRaisesUnguarded(bucket, k) == k < 0 \/ k > Cardinality(bucket)

\* whether _sample raises: random.sample is reached only with
\* len(bucket) >= k, and raises ValueError for a negative k
SampleRaises(bucket, k) == k < 0

\* no loop iteration made yet
NoRequest ==
    [iterations |-> 0, need |-> 0, verb_empty |-> FALSE, noun_empty |-> FALSE,
     num_verb_examples |-> 0, num_noun_examples |-> 0]

\* the locals of __getitem__ when no caller runs a call
NoCall ==
    /\ pc = [w \in Workers |-> "idle"]
    /\ index = [w \in Workers |-> 0]
    /\ verb_bucket = [w \in Workers |-> {}]
    /\ noun_bucket = [w \in Workers |-> {}]
    /\ examples = [w \in Workers |-> {}]
    /\ items = [w \in Workers |-> <<>>]
    /\ requested = [w \in Workers |-> NoRequest]

\* the dataset right after FrameInterleavedDataset.__init__, used by the
\* callers in `callers`; same_pool: whether no in-context directory is given
SelectorNew(callers, same_pool) ==
    /\ in_context_dir_is_none \in same_pool
    /\ dataset_data \in IF in_context_dir_is_none THEN Tables ELSE TargetTables
    /\ in_context_data \in IF in_context_dir_is_none THEN {dataset_data} ELSE Tables
    /\ num_in_context_examples_per_sample \in 0..MaxK
    /\ verb_noun_ratio \in Ratios
    /\ structured_verb_buckets = VerbBuckets(in_context_data, Len(in_context_data))
    /\ structured_noun_buckets = NounBuckets(in_context_data, Len(in_context_data))
    /\ built_verb_buckets = structured_verb_buckets
    /\ built_noun_buckets = structured_noun_buckets
    /\ workers = callers
    /\ NoCall

\* no interleaved dataset was constructed
SelectorOff ==
    /\ in_context_dir_is_none = TRUE
    /\ dataset_data = <<>>
    /\ in_context_data = <<>>
    /\ num_in_context_examples_per_sample = 0
    /\ verb_noun_ratio = <<0, 1>>
    /\ structured_verb_buckets = EmptyBuckets
    /\ structured_noun_buckets = EmptyBuckets
    /\ built_verb_buckets = EmptyBuckets
    /\ built_noun_buckets = EmptyBuckets
    /\ workers = {}
    /\ NoCall

selectorConfig == <<in_context_dir_is_none, dataset_data, in_context_data,
                    num_in_context_examples_per_sample, verb_noun_ratio,
                    workers, built_verb_buckets, built_noun_buckets>>

\* __getitem__(index) of caller w up to the while loop: the datapoint is read
\* and the two buckets of its labels are copied
GetItemBegin(w) ==
    /\ component = "selector"
    /\ pc[w] = "idle"
    /\ \E idx \in 0..(Len(dataset_data) - 1) :
         LET datapoint == dataset_data[idx + 1]
         IN  /\ index' = [index EXCEPT ![w] = idx]
             /\ verb_bucket' = [verb_bucket EXCEPT ![w] =
                    BucketCopy(structured_verb_buckets,
                               datapoint.structured_verb, idx,
                               in_context_dir_is_none)]
             /\ noun_bucket' = [noun_bucket EXCEPT ![w] =
                    BucketCopy(structured_noun_buckets,
                               datapoint.structured_noun, idx,
                               in_context_dir_is_none)]
    /\ examples' = [examples EXCEPT ![w] = {}]
    /\ items' = [items EXCEPT ![w] = <<>>]
    /\ requested' = [requested EXCEPT ![w] = NoRequest]
    /\ pc' = [pc EXCEPT ![w] = "loop"]
    /\ UNCHANGED <<component, selectorConfig, structured_verb_buckets,
                   structured_noun_buckets>>
    /\ UNCHANGED <<samplerVars, indexVars>>

\* one iteration of the while loop of caller w's __getitem__
GetItemLoop(w) ==
    /\ component = "selector"
    /\ pc[w] = "loop"
    /\ LET num_additional_examples ==
               num_in_context_examples_per_sample - Cardinality(examples[w])
           datapoint == dataset_data[index[w] + 1]
           num_verb_examples ==
               NumVerbExamples(num_additional_examples, verb_bucket[w],
                               noun_bucket[w], verb_noun_ratio)
           num_noun_examples ==
               NumNounExamples(num_additional_examples, verb_bucket[w],
                               noun_bucket[w], verb_noun_ratio)
       IN  /\ num_additional_examples > 0
           /\ verb_bucket[w] # {} \/ noun_bucket[w] # {}
           /\ requested' = [requested EXCEPT ![w] =
                  [iterations |-> @.iterations + 1,
                   need |-> num_additional_examples,
                   verb_empty |-> verb_bucket[w] = {},
                   noun_empty |-> noun_bucket[w] = {},
                   num_verb_examples |-> num_verb_examples,
                   num_noun_examples |-> num_noun_examples]]
           /\ IF \/ SampleRaises(verb_bucket[w], num_verb_examples)
                 \/ SampleRaises(noun_bucket[w], num_noun_examples)
              THEN /\ pc' = [pc EXCEPT ![w] = "ValueError"]
                   /\ UNCHANGED <<verb_bucket, noun_bucket, examples,
                                  structured_verb_buckets,
                                  structured_noun_buckets>>
              ELSE /\ \E verb_samples \in
                             SampleOutcomes(verb_bucket[w], num_verb_examples),
                         noun_samples \in
                             SampleOutcomes(noun_bucket[w], num_noun_examples) :
                        /\ verb_bucket' =
                               [verb_bucket EXCEPT ![w] = @ \ verb_samples]
                        /\ noun_bucket' =
                               [noun_bucket EXCEPT ![w] = @ \ noun_samples]
                        /\ examples' = [examples EXCEPT ![w] =
                               @ \cup verb_samples \cup noun_samples]
                        /\ structured_verb_buckets' =
                               RemoveDrawn(structured_verb_buckets,
                                           datapoint.structured_verb,
                                           verb_samples)
                        /\ structured_noun_buckets' =
                               RemoveDrawn(structured_noun_buckets,
                                           datapoint.structured_noun,
                                           noun_samples)
                   /\ UNCHANGED pc
    /\ UNCHANGED <<component, selectorConfig, index, items>>
    /\ UNCHANGED <<samplerVars, indexVars>>

\* caller w's __getitem__ after the while loop: the fill from the rest of the
\* dataset, the shuffle of the examples and the main datapoint appended
GetItemFinish(w) ==
    /\ component = "selector"
    /\ pc[w] = "loop"
    /\ LET num_additional_examples ==
               num_in_context_examples_per_sample - Cardinality(examples[w])
           rest == Rest(Len(in_context_data), index[w],
                        in_context_dir_is_none, examples[w])
       IN  /\ ~(num_additional_examples > 0
                  /\ (verb_bucket[w] # {} \/ noun_bucket[w] # {}))
           /\ IF num_additional_examples > 0
                 /\ SampleRaises(rest, num_additional_examples)
              THEN /\ pc' = [pc EXCEPT ![w] = "ValueError"]
                   /\ UNCHANGED <<examples, items>>
              ELSE /\ \E fill \in IF num_additional_examples > 0
                                  THEN SampleOutcomes(rest,
                                           num_additional_examples)
                                  ELSE {{}} :
                        /\ examples' = [examples EXCEPT ![w] = @ \cup fill]
                        /\ \E order \in Orderings(examples[w] \cup fill) :
                             items' = [items EXCEPT ![w] =
                                 Items(order, index[w],
                                       in_context_dir_is_none)]
                   /\ pc' = [pc EXCEPT ![w] = "done"]
    /\ UNCHANGED <<component, selectorConfig, structured_verb_buckets,
                   structured_noun_buckets, index, verb_bucket, noun_bucket,
                   requested>>
    /\ UNCHANGED <<samplerVars, indexVars>>

\* caller w's __getitem__ returns the item: its locals are gone
GetItemReturn(w) ==
    /\ component = "selector"
    /\ pc[w] = "done"
    /\ pc' = [pc EXCEPT ![w] = "idle"]
    /\ index' = [index EXCEPT ![w] = 0]
    /\ verb_bucket' = [verb_bucket EXCEPT ![w] = {}]
    /\ noun_bucket' = [noun_bucket EXCEPT ![w] = {}]
    /\ examples' = [examples EXCEPT ![w] = {}]
    /\ items' = [items EXCEPT ![w] = <<>>]
    /\ requested' = [requested EXCEPT ![w] = NoRequest]
    /\ UNCHANGED <<component, selectorConfig, structured_verb_buckets,
                   structured_noun_buckets>>
    /\ UNCHANGED <<samplerVars, indexVars>>

----------------------------------------------------------------------------
(* filter_action and the video index of Ego4dFHOMainDataset *)

\* C_REGEX.match(text) is not None: the text begins with "C" and a space
CRegexMatch(text) == Len(text) >= 2 /\ text[1] = "C" /\ text[2] = " "

\* a filter that does not look at is_rejected
FilterActionRejectedIgnored(action) ==
    /\ action.is_valid_action
    /\ CRegexMatch(action.narration_text)

\* filter_action
FilterAction(action) ==
    /\ ~action.is_rejected
    /\ action.is_valid_action
    /\ CRegexMatch(action.narration_text)

\* the narrated actions the annotation file may hold for a video
RawActions ==
    [is_rejected : BOOLEAN, is_valid_action : BOOLEAN, narration_text : Texts]

\* the entry of "narrated_actions" made from an annotated action
NarratedAction(action) == [narration_text |-> action.narration_text]

\* no call made yet
NoResult == [status |-> "none", value |-> FALSE]

\* no function is called by itself
CallsOff == fn_arg = None /\ fn_result = NoResult

\* no split is being indexed
ManifestOff ==
    /\ annotations = <<>>
    /\ split_videos = <<>>
    /\ labeled_video_paths = <<>>

\* Ego4dFHOMainDataset.__init__ about to build the list of a video
IndexNew ==
    /\ CallsOff
    /\ ManifestOff
    /\ raw_actions \in UNION {[1..n -> RawActions] : n \in 0..MaxRawActions}
    /\ scan_pos = 0
    /\ index_narrated_actions = <<>>
    /\ kept = <<>>
    /\ last_filter = FALSE

\* no video dataset was constructed
IndexOff ==
    /\ CallsOff
    /\ ManifestOff
    /\ raw_actions = <<>>
    /\ scan_pos = 0
    /\ index_narrated_actions = <<>>
    /\ kept = <<>>
    /\ last_filter = FALSE

\* one round of the list comprehension of __init__: the next action is read
\* and, if filter_action lets it through, its entry is appended
IndexStep ==
    /\ component = "index"
    /\ scan_pos < Len(raw_actions)
    /\ LET action == raw_actions[scan_pos + 1]
           passes == FilterAction(action)
       IN  /\ last_filter' = passes
           /\ index_narrated_actions' = IF passes
                                  THEN Append(index_narrated_actions,
                                              NarratedAction(action))
                                  ELSE index_narrated_actions
           /\ kept' = IF passes THEN Append(kept, scan_pos) ELSE kept
    /\ scan_pos' = scan_pos + 1
    /\ UNCHANGED <<component, raw_actions, callVars, manifestVars>>
    /\ UNCHANGED <<samplerVars, selectorVars>>

\* the index construction with no list to build
ListOff ==
    /\ raw_actions = <<>>
    /\ scan_pos = 0
    /\ index_narrated_actions = <<>>
    /\ kept = <<>>
    /\ last_filter = FALSE

\* a key the dict of an action does not carry
Absent == None

\* the dicts filter_action may be handed: each key it reads is present with
\* a value, or absent
ActionDicts ==
    [is_rejected : {Absent} \cup {Some(b) : b \in BOOLEAN},
     is_valid_action : {Absent} \cup {Some(b) : b \in BOOLEAN},
     narration_text : {Absent} \cup {Some(t) : t \in Texts}]

\* the call returned value
Returned(value) == [status |-> "returned", value |-> value]

\* a subscript of the call raised KeyError
KeyError == [status |-> "KeyError", value |-> FALSE]

\* a filter that reads every key with a default (dict.get)
FilterActionSafeLookup(action) ==
    IF \/ action.is_rejected = Absent
       \/ action.is_valid_action = Absent
       \/ action.narration_text = Absent
    THEN Returned(FALSE)
    ELSE Returned(/\ ~action.is_rejected[1]
                  /\ action.is_valid_action[1]
                  /\ CRegexMatch(action.narration_text[1]))

\* filter_action on a dict: the keys are subscripted one after the other as
\* the "and" chain gets to them
FilterActionOnDict(action) ==
    IF action.is_rejected = Absent THEN KeyError
    ELSE IF action.is_rejected[1] THEN Returned(FALSE)
    ELSE IF action.is_valid_action = Absent THEN KeyError
    ELSE IF ~action.is_valid_action[1] THEN Returned(FALSE)
    ELSE IF action.narration_text = Absent THEN KeyError
    ELSE Returned(CRegexMatch(action.narration_text[1]))

\* filter_action is about to be called on some dict
FilterNew ==
    /\ fn_arg \in {Some(a) : a \in ActionDicts}
    /\ fn_result = NoResult
    /\ ListOff
    /\ ManifestOff

\* the call of filter_action
FilterCall ==
    /\ component = "filter_action"
    /\ fn_result = NoResult
    /\ fn_result' = FilterActionOnDict(fn_arg[1])
    /\ UNCHANGED <<component, fn_arg, listVars, manifestVars>>
    /\ UNCHANGED <<samplerVars, selectorVars>>

\* box["structured_noun"]: None, or a label, which may be the empty string
NounLabels == {None, Some("cup"), Some("bowl"), Some("")}

\* the boxes of a frame
Boxes == [object_type : ObjectTypes, structured_noun : NounLabels]

\* the boxes, in order, that a list of <<frame, box>> pairs gives frame f
BoxesOfFrame(tagged, f) ==
    LET OfFrame(x) == x.frame = f
        sel == SelectSeq(tagged, OfFrame)
    IN  [b \in 1..Len(sel) |-> sel[b].box]

\* action["frames"] as a list: up to MaxFrames frames with up to MaxBoxes
\* boxes between them
FrameLists ==
    {[f \in 1..Len(types) |->
         [frame_type |-> types[f], boxes |-> BoxesOfFrame(tagged, f)]] :
        types \in UNION {[1..n -> FrameTypes] : n \in 0..MaxFrames},
        tagged \in UNION {[1..n -> [frame : 1..MaxFrames, box : Boxes]] :
                             n \in 0..MaxBoxes}}

\* a frame test that lets every frame through
IsPnrFrameAny(frame) == TRUE

\* the frames get_structured_noun looks into
IsPnrFrame(frame) == frame.frame_type = "pnr_frame"

\* the inner loop of get_structured_noun from box b on: the label it returns,
\* or None when it runs to its end
RECURSIVE ScanBoxes(_, _)
ScanBoxes(boxes, b) ==
    IF b > Len(boxes) THEN None
    ELSE IF /\ boxes[b].object_type = "object_of_change"
            /\ boxes[b].structured_noun # None
         THEN boxes[b].structured_noun
         ELSE ScanBoxes(boxes, b + 1)

\* the outer loop of get_structured_noun from frame f on
RECURSIVE ScanFrames(_, _)
ScanFrames(frames, f) ==
    IF f > Len(frames) THEN None
    ELSE IF ~IsPnrFrame(frames[f]) THEN ScanFrames(frames, f + 1)
    ELSE LET found == ScanBoxes(frames[f].boxes, 1)
         IN  IF found # None THEN found ELSE ScanFrames(frames, f + 1)

\* get_structured_noun
GetStructuredNoun(action) ==
    IF action.frames = None THEN None ELSE ScanFrames(action.frames[1], 1)

\* get_structured_noun is about to be called on some action
NounNew ==
    /\ fn_arg \in {Some([frames |-> fr]) :
                       fr \in {None} \cup {Some(l) : l \in FrameLists}}
    /\ fn_result = NoResult
    /\ ListOff
    /\ ManifestOff

\* the call of get_structured_noun
NounCall ==
    /\ component = "get_structured_noun"
    /\ fn_result = NoResult
    /\ fn_result' = Returned(GetStructuredNoun(fn_arg[1]))
    /\ UNCHANGED <<component, fn_arg, listVars, manifestVars>>
    /\ UNCHANGED <<samplerVars, selectorVars>>

\* the narrated actions the annotation file holds when a whole split is
\* indexed: rejected or not, at one of two narration times
AnnotatedActions ==
    [is_rejected : BOOLEAN, is_valid_action : {TRUE},
     narration_text : {<<"C", " ", "x">>}, narration_timestamp_sec : {0, 3}]

\* the actions, in order, that a list of tagged actions gives interval j of
\* video video_uid
ActionsOfInterval(tagged, video_uid, j) ==
    LET OfInterval(x) == x.video_uid = video_uid /\ x.interval = j
        sel == SelectSeq(tagged, OfInterval)
    IN  [k \in 1..Len(sel) |-> sel[k].action]

\* video_dict: every video id with its annotated intervals; the file holds up
\* to MaxRawActions narrated actions over all of them
AnnotationFiles ==
    {[video_uid \in Uids |->
         [annotated_intervals |->
              [j \in IntervalIds |->
                   [narrated_actions |->
                        ActionsOfInterval(tagged, video_uid, j)]]]] :
        tagged \in UNION {[1..n -> [video_uid : Uids, interval : IntervalIds,
                                     action : AnnotatedActions]] :
                             n \in 0..MaxRawActions}}

\* split_data["videos"]: video ids of the annotation file, each at most once,
\* in any order
SplitLists ==
    {l \in UNION {[1..n -> Uids] : n \in 0..Cardinality(Uids)} :
        \A p, q \in DOMAIN l : p # q => l[p] # l[q]}

\* the entry of "narrated_actions" made from an annotated action, with its
\* narration time
NarratedActionEntry(action) ==
    [narration_timestamp_sec |-> action.narration_timestamp_sec,
     narration_text |-> action.narration_text]

\* the inner "for action in interval[...] if filter_action(action)" from
\* action k on
RECURSIVE EntriesOfInterval(_, _)
EntriesOfInterval(narrated_actions, k) ==
    IF k > Len(narrated_actions) THEN <<>>
    ELSE (IF FilterAction(narrated_actions[k])
          THEN <<NarratedActionEntry(narrated_actions[k])>>
          ELSE <<>>) \o EntriesOfInterval(narrated_actions, k + 1)

\* a comprehension that appends the intervals last to first
RECURSIVE EntriesOfIntervalsReversed(_, _)
EntriesOfIntervalsReversed(annotated_intervals, j) ==
    IF j > Len(annotated_intervals) THEN <<>>
    ELSE EntriesOfIntervalsReversed(annotated_intervals, j + 1)
             \o EntriesOfInterval(annotated_intervals[j].narrated_actions, 1)

\* the outer "for interval in video_dict[video_uid][...]" from interval j on
RECURSIVE EntriesOfIntervals(_, _)
EntriesOfIntervals(annotated_intervals, j) ==
    IF j > Len(annotated_intervals) THEN <<>>
    ELSE EntriesOfInterval(annotated_intervals[j].narrated_actions, 1)
             \o EntriesOfIntervals(annotated_intervals, j + 1)

\* Ego4dFHOMainDataset.__init__ about to index some split
ManifestNew ==
    /\ annotations \in AnnotationFiles
    /\ split_videos \in SplitLists
    /\ labeled_video_paths = <<>>
    /\ ListOff
    /\ CallsOff

\* one round of "for video_uid in split_data[...]": the record of the next
\* video id is appended
IndexVideo ==
    /\ component = "video_index"
    /\ Len(labeled_video_paths) < Len(split_videos)
    /\ LET video_uid == split_videos[Len(labeled_video_paths) + 1]
       IN  labeled_video_paths' =
               Append(labeled_video_paths,
                      [narrated_actions |->
                           EntriesOfIntervals(
                               annotations[video_uid].annotated_intervals, 1),
                       video_uid |-> video_uid])
    /\ UNCHANGED <<component, annotations, split_videos, listVars, callVars>>
    /\ UNCHANGED <<samplerVars, selectorVars>>

----------------------------------------------------------------------------
(* Specifications *)

vars == <<component, samplerVars, selectorVars, indexVars>>

InitSampler == component = "sampler" /\ SamplerNew /\ SelectorOff /\ IndexOff

NextSampler == NextVideo \/ SamplerCall \/ CloseVideo

\* the clip sampler driven by the video dataset, one video at a time
SpecSampler == InitSampler /\ [][NextSampler]_vars

NextSamplerSkip == NextVideoOrEmpty \/ SamplerCall \/ CloseVideo \/ SkipVideo

\* the clip sampler driven over videos some of which have no narrated action
\* left, by a caller that skips a video whose call raised
SpecSamplerSkip == InitSampler /\ [][NextSamplerSkip]_vars

InitShared == component = "samplers" /\ SharedNew /\ SelectorOff /\ IndexOff

\* some consumer makes its next call
AnyWorkerCall == \E w \in Workers : WorkerCall(w)

NextShared == AnyWorkerCall

\* two consumers iterating two videos, their calls interleaved, through one
\* sampler object or through one each
SpecShared == InitShared /\ [][NextShared]_vars

InitSelector ==
    component = "selector" /\ SamplerOff /\ IndexOff /\ SelectorNew({"w1"}, BOOLEAN)

\* some caller takes the next step of its __getitem__
AnyGetItemBegin == \E w \in workers : GetItemBegin(w)

AnyGetItemLoop == \E w \in workers : GetItemLoop(w)

AnyGetItemFinish == \E w \in workers : GetItemFinish(w)

AnyGetItemReturn == \E w \in workers : GetItemReturn(w)

NextSelector ==
    AnyGetItemBegin \/ AnyGetItemLoop \/ AnyGetItemFinish \/ AnyGetItemReturn

\* the interleaved frame dataset serving one __getitem__ call after another
SpecSelector == InitSelector /\ [][NextSelector]_vars

InitWorkers ==
    component = "selector" /\ SamplerOff /\ IndexOff /\ SelectorNew(Workers, {TRUE})

InitSelectorOrWorkers == InitSelector \/ InitWorkers

\* the interleaved frame dataset serving calls one after another, or, with
\* the main dataset as the in-context pool, the calls of two callers whose
\* steps interleave
SpecWorkers == InitSelectorOrWorkers /\ [][NextSelector]_vars

InitIndex == component = "index" /\ SamplerOff /\ SelectorOff /\ IndexNew

NextIndex == IndexStep

\* the video dataset building the action list of a video
SpecIndex == InitIndex /\ [][NextIndex]_vars

InitManifest ==
    component = "video_index" /\ SamplerOff /\ SelectorOff /\ ManifestNew

NextManifest == IndexVideo

\* the video dataset building the index of a split, video by video
SpecManifest == InitManifest /\ [][NextManifest]_vars

InitFilterCall ==
    component = "filter_action" /\ SamplerOff /\ SelectorOff /\ FilterNew

InitNounCall ==
    component = "get_structured_noun" /\ SamplerOff /\ SelectorOff /\ NounNew

InitFunctions == InitFilterCall \/ InitNounCall

NextFunctions == FilterCall \/ NounCall

\* filter_action and get_structured_noun, each called once on an annotated
\* action
SpecFunctions == InitFunctions /\ [][NextFunctions]_vars

Init ==
    \/ InitSampler
    \/ InitShared
    \/ InitSelector
    \/ InitWorkers
    \/ InitIndex
    \/ InitManifest
    \/ InitFunctions

Next ==
    \/ NextSampler
    \/ NextSamplerSkip
    \/ NextShared
    \/ NextSelector
    \/ NextIndex
    \/ NextManifest
    \/ NextFunctions

Spec == Init /\ [][Next]_vars

----------------------------------------------------------------------------
(* Properties of the clip sampler *)

\* the narrated actions of the current video
CurrentActions == video[1].narrated_actions

\* the action the last __call__ read through the index list
ActionAtCursor == CurrentActions[last_order[last_pos + 1] + 1]

\* C1: in a pass over a video with n >= 1 actions, started on a reset
\* sampler, every call returns a clip, no action index is returned twice, and
\* the n calls of the pass return exactly the indices 0..n-1, in natural and
\* in random order alike
C1_EachIndexOncePerPass ==
    (component = "sampler" /\ video # None /\ ret.status # "none") =>
        LET n == Len(CurrentActions)
        IN  /\ ret.status = "ClipInfo"
            /\ Len(visited) <= n
            /\ \A p, q \in DOMAIN visited : p # q => visited[p] # visited[q]
            /\ Range(visited) \subseteq 0..(n - 1)
            /\ (Len(visited) = n => Range(visited) = 0..(n - 1))

\* a random-order pass over three actions is complete and was not ascending
C1_Witness ==
    /\ component = "sampler"
    /\ random
    /\ ret.status = "ClipInfo"
    /\ ret.is_last_clip
    /\ Len(visited) = 3
    /\ visited # <<0, 1, 2>>

\* C2: is_last_clip is true on exactly the n-th call of the pass; on that
\* call the sampler is reset (cursor 0, index list unset); and every call,
\* for every video of the sequence, reads an index list built from the
\* current video's own action list
C2_LastClipResets ==
    (component = "sampler" /\ video # None /\ ret.status # "none") =>
        LET n == Len(CurrentActions)
        IN  /\ ret.status = "ClipInfo"
            /\ ret.is_last_clip <=> (Len(visited) = n)
            /\ ret.is_last_clip =>
                   (current_clip_index = 0 /\ sample_clip_indices = None)
            /\ Len(last_order) = n
            /\ Range(last_order) = 0..(n - 1)

\* the pass over a second video has just ended, after two calls, the first of
\* which did not end it
C2_Witness ==
    /\ component = "sampler"
    /\ videos_done = 2
    /\ ret.status = "ClipInfo"
    /\ ret.is_last_clip
    /\ Len(visited) = 2
    /\ sample_clip_indices = None

\* C6: for a video at least as long as the clip duration, every returned
\* window is exactly ClipDuration (8 seconds) long
C6_WindowLength ==
    (/\ component = "sampler"
     /\ ret.status = "ClipInfo"
     /\ video[1].video_metadata.duration_sec >= ClipDuration) =>
        ret.clip_end_sec - ret.clip_start_sec = ClipDuration

\* a window whose end was clamped to the video duration and whose start was
\* moved back
C6_Witness ==
    /\ component = "sampler"
    /\ ret.status = "ClipInfo"
    /\ video[1].video_metadata.duration_sec >= ClipDuration
    /\ ret.clip_end_sec = video[1].video_metadata.duration_sec
    /\ ret.clip_start_sec > 0
    /\ item.narration_timestamp_sec - ClipDuration \div 2 > ret.clip_start_sec

\* C10: the returned clip_index is the entry of the index list under the
\* cursor (the action's place in the action list), the window is the one of
\* that action's timestamp, and the emitted record carries that action's
\* narration together with that window
C10_IndexIsOriginalPosition ==
    (component = "sampler" /\ ret.status = "ClipInfo") =>
        LET window == ClipWindow(ActionAtCursor.narration_timestamp_sec,
                                 video[1].video_metadata.duration_sec)
        IN  /\ ret.clip_index = last_order[last_pos + 1]
            /\ ret.clip_start_sec = window.clip_start_sec
            /\ ret.clip_end_sec = window.clip_end_sec
            /\ item.clip_index = ret.clip_index
            /\ item.clip_start_sec = ret.clip_start_sec
            /\ item.clip_end_sec = ret.clip_end_sec
            /\ item.narration_text = ActionAtCursor.narration_text
            /\ item.narration_timestamp_sec =
                   ActionAtCursor.narration_timestamp_sec

\* in random order, a call returned an index that differs from its place in
\* the shuffled order, for actions with different windows
C10_Witness ==
    /\ component = "sampler"
    /\ random
    /\ ret.status = "ClipInfo"
    /\ ret.clip_index # last_pos
    /\ ClipWindow(CurrentActions[last_pos + 1].narration_timestamp_sec,
                  video[1].video_metadata.duration_sec).clip_start_sec
           # ret.clip_start_sec

\* C11, as stated: no call returns a window with a negative start (a video
\* shorter than the clip duration makes the call fail instead)
C11_NoNegativeStart ==
    (component = "sampler" /\ ret.status # "none") =>
        IF video[1].video_metadata.duration_sec < ClipDuration
        THEN ret.status # "ClipInfo"
        ELSE ret.status = "ClipInfo" => ret.clip_start_sec >= 0

\* C11, amended: no call fails on account of the video duration; the start
\* of the returned window is negative exactly when the video is shorter than
\* the clip duration, and the window is then [duration - 8, duration]
C11_NegativeStartReturned ==
    (component = "sampler" /\ video # None /\ ret.status # "none") =>
        LET duration_sec == video[1].video_metadata.duration_sec
        IN  /\ ret.status = "ClipInfo"
            /\ (ret.clip_start_sec < 0) <=> (duration_sec < ClipDuration)
            /\ duration_sec < ClipDuration =>
                   /\ ret.clip_start_sec = duration_sec - ClipDuration
                   /\ ret.clip_end_sec = duration_sec

\* a call for a video of 5 seconds returned the window [-3, 5]
C11_Witness ==
    /\ component = "sampler"
    /\ ret.status = "ClipInfo"
    /\ video[1].video_metadata.duration_sec = 5
    /\ ret.clip_start_sec = -3
    /\ ret.clip_end_sec = 5

\* C12: a call made while the index list is unset or empty builds the list
\* 0..n-1 (in some order) from the n actions of that call, and for n >= 1 it
\* returns a clip of that list; so the call after a call for a video without
\* actions starts a full pass
C12_RebuildWhenEmptyOrUnset ==
    [][(/\ component = "sampler"
        /\ video # None
        /\ video' = video
        /\ (sample_clip_indices = None \/ sample_clip_indices = Some(<<>>))) =>
            LET n == Len(video[1].narrated_actions)
            IN  /\ Len(last_order') = n
                /\ Range(last_order') = 0..(n - 1)
                /\ n >= 1 =>
                       /\ ret'.status = "ClipInfo"
                       /\ ret'.clip_index \in 0..(n - 1)]_vars

\* C16: two consumers whose calls interleave get, each through a sampler
\* object of its own, every index of its own video exactly once (each call
\* returns a clip, no index twice, none out of range, is_last_clip on the
\* call that completes the coverage); through one shared object this breaks,
\* as the state C16_Witness shows
C16_OwnInstanceCoversOnce ==
    (component = "samplers" /\ ~share) =>
        \A w \in Workers :
            worker_ret[w].status # "none" =>
                LET n == Len(worker_video[w].narrated_actions)
                    seen == worker_visited[w]
                IN  /\ worker_ret[w].status = "ClipInfo"
                    /\ worker_ret[w].clip_index = seen[Len(seen)]
                    /\ \A p, q \in DOMAIN seen : p # q => seen[p] # seen[q]
                    /\ Range(seen) \subseteq 0..(n - 1)
                    /\ worker_ret[w].is_last_clip <=> (Range(seen) = 0..(n - 1))

\* on a shared sampler in natural order, the first call of the second
\* consumer, for a video of three actions, read the list built for the
\* first consumer's video of two actions: it returned index 1, never
\* index 0, and flagged its pass complete
C16_Witness ==
    /\ component = "samplers"
    /\ share
    /\ ~random
    /\ Len(worker_video["w1"].narrated_actions) = 2
    /\ Len(worker_video["w2"].narrated_actions) = 3
    /\ worker_visited["w1"] = <<0>>
    /\ worker_visited["w2"] = <<1>>
    /\ worker_ret["w2"].status = "ClipInfo"
    /\ worker_ret["w2"].is_last_clip

\* C17: for narration time t, clip duration d = 8 and video duration D, the
\* returned window has start = max(t - d/2, 0) and end = start + d, unless
\* that end is greater than D, and then end = D and start = D - d
C17_WindowAroundTimestamp ==
    (component = "sampler" /\ ret.status = "ClipInfo") =>
        LET t == item.narration_timestamp_sec
            D == video[1].video_metadata.duration_sec
            start == IF t - 4 >= 0 THEN t - 4 ELSE 0
        IN  IF start + 8 > D
            THEN ret.clip_end_sec = D /\ ret.clip_start_sec = D - 8
            ELSE ret.clip_start_sec = start /\ ret.clip_end_sec = start + 8

\* a window centred on the narration time, away from both ends of the video
C17_Witness ==
    /\ component = "sampler"
    /\ ret.status = "ClipInfo"
    /\ item.narration_timestamp_sec = 6
    /\ video[1].video_metadata.duration_sec = 12
    /\ ret.clip_start_sec = 2
    /\ ret.clip_end_sec = 10

\* C18: with the random flag off, the k-th call of a pass returns index
\* k - 1: the actions are visited in ascending index order
C18_NaturalOrder ==
    (component = "sampler" /\ ~random /\ ret.status = "ClipInfo") =>
        /\ ret.clip_index = Len(visited) - 1
        /\ \A k \in DOMAIN visited : visited[k] = k - 1

\* the third call of a pass in natural order returned index 2
C18_Witness ==
    /\ component = "sampler"
    /\ ~random
    /\ ret.status = "ClipInfo"
    /\ Len(visited) = 3
    /\ ret.clip_index = 2
    /\ current_clip_index = 0

\* C21: for a video at least as long as the clip duration and a narration
\* time t inside the video, the returned window lies inside the video and
\* holds t: 0 <= start <= t <= end <= D
C21_WindowInsideVideo ==
    (/\ component = "sampler"
     /\ ret.status = "ClipInfo"
     /\ video[1].video_metadata.duration_sec >= ClipDuration
     /\ ActionAtCursor.narration_timestamp_sec >= 0
     /\ ActionAtCursor.narration_timestamp_sec
            <= video[1].video_metadata.duration_sec) =>
        /\ 0 <= ret.clip_start_sec
        /\ ret.clip_start_sec <= ActionAtCursor.narration_timestamp_sec
        /\ ActionAtCursor.narration_timestamp_sec <= ret.clip_end_sec
        /\ ret.clip_end_sec <= video[1].video_metadata.duration_sec

\* the window of an action narrated one second before the end of a 12 second
\* video: [4, 12]
C21_Witness ==
    /\ component = "sampler"
    /\ ret.status = "ClipInfo"
    /\ video[1].video_metadata.duration_sec = 12
    /\ ActionAtCursor.narration_timestamp_sec = 11
    /\ ret.clip_start_sec = 4
    /\ ret.clip_end_sec = 12

\* C22: between calls, with one video of n >= 1 actions processed at a time,
\* the sampler is either reset (index list unset, cursor 0) or inside a pass
\* (the index list holds each of 0..n-1 once and 0 < cursor < n); so a call
\* never starts with the cursor at or past the end of the index list
C22_ResetOrInsidePass ==
    component = "sampler" =>
        /\ \/ sample_clip_indices = None /\ current_clip_index = 0
           \/ /\ video # None
              /\ sample_clip_indices # None
              /\ LET n == Len(CurrentActions)
                     indices == sample_clip_indices[1]
                 IN  /\ Len(indices) = n
                     /\ \A i \in 0..(n - 1) :
                            \E p \in DOMAIN indices : indices[p] = i
                     /\ 0 < current_clip_index
                     /\ current_clip_index < n
        /\ sample_clip_indices # None =>
               current_clip_index < Len(sample_clip_indices[1])
        /\ video # None => current_clip_index < Len(CurrentActions)

\* two calls into a random pass over three actions: the list is a
\* rearrangement of 0, 1, 2 and the cursor is 2
C22_Witness ==
    /\ component = "sampler"
    /\ sample_clip_indices = Some(<<2, 0, 1>>)
    /\ current_clip_index = 2
    /\ visited = <<2, 0>>

----------------------------------------------------------------------------
(* Properties of the buckets and of the in-context selection *)

\* the row of the datapoint caller w asked for
TargetRow(w) == dataset_data[index[w] + 1]

\* the places of the in-context pool
PoolIndices == 0..(Len(in_context_data) - 1)

\* the labels of the tables, the two that are never bucketed included
Labels ==
    {r.structured_verb : r \in Rows} \cup {r.structured_noun : r \in Rows}
        \cup {"", "[other]"}

\* the pool rows that share caller w's target's verb, the target left out
\* when the pool is the main dataset
VerbPeers(w) ==
    {i \in PoolIndices :
        /\ in_context_data[i + 1].structured_verb = TargetRow(w).structured_verb
        /\ TargetRow(w).structured_verb \notin {"", "[other]"}
        /\ ~(in_context_dir_is_none /\ i = index[w])}

\* the pool rows that share caller w's target's noun, likewise
NounPeers(w) ==
    {i \in PoolIndices :
        /\ in_context_data[i + 1].structured_noun = TargetRow(w).structured_noun
        /\ TargetRow(w).structured_noun # ""
        /\ ~(in_context_dir_is_none /\ i = index[w])}

\* C3: with the main dataset as the in-context pool, a call never raises,
\* never holds the target index among its examples, never holds more than k,
\* and ends with exactly min(k, pool size - 1) distinct examples
C3_SelectionSizeAndNoSelf ==
    (component = "selector" /\ in_context_dir_is_none) =>
        \A w \in workers :
            /\ pc[w] # "ValueError"
            /\ pc[w] # "idle" =>
                   /\ index[w] \notin examples[w]
                   /\ examples[w] \subseteq PoolIndices
                   /\ Cardinality(examples[w])
                          <= num_in_context_examples_per_sample
            /\ pc[w] = "done" =>
                   Cardinality(examples[w]) =
                       Min(num_in_context_examples_per_sample,
                           Len(in_context_data) - 1)

\* a call ended short of k because the pool is too small, its target's verb
\* and noun buckets overlapping
C3_Witness ==
    /\ component = "selector"
    /\ in_context_dir_is_none
    /\ pc["w1"] = "done"
    /\ Len(in_context_data) = 2
    /\ num_in_context_examples_per_sample = 2
    /\ Cardinality(examples["w1"]) = 1
    /\ VerbPeers("w1") \cap NounPeers("w1") # {}

\* C4: __getitem__ leaves the canonical bucket maps as __init__ built them,
\* keys and index sets, whatever calls ran or are running, one after another
\* or interleaved
C4_CanonicalBucketsUnchanged ==
    component = "selector" =>
        /\ structured_verb_buckets = built_verb_buckets
        /\ structured_noun_buckets = built_noun_buckets

\* two interleaved calls have both drawn from a bucket, one of them for a
\* target whose label has no bucket
C4_Witness ==
    /\ component = "selector"
    /\ workers = Workers
    /\ pc["w1"] = "loop"
    /\ examples["w1"] # {}
    /\ requested["w1"].num_verb_examples > 0
    /\ pc["w2"] = "done"
    /\ TargetRow("w2").structured_verb \notin DOMAIN structured_verb_buckets
    /\ examples["w2"] # {}

\* C5: index i is in the verb bucket of label L iff row i has verb L and L is
\* neither "" nor "[other]"; it is in the noun bucket of L iff row i has noun
\* L and L is not ""; every bucket holds only places of the table
C5_BucketsMatchLabels ==
    component = "selector" =>
        /\ \A L \in Labels \cup DOMAIN structured_verb_buckets :
              \A i \in PoolIndices :
                  i \in BucketGet(structured_verb_buckets, L) <=>
                      /\ in_context_data[i + 1].structured_verb = L
                      /\ L # ""
                      /\ L # "[other]"
        /\ \A L \in Labels \cup DOMAIN structured_noun_buckets :
              \A i \in PoolIndices :
                  i \in BucketGet(structured_noun_buckets, L) <=>
                      /\ in_context_data[i + 1].structured_noun = L
                      /\ L # ""
        /\ \A L \in DOMAIN structured_verb_buckets :
              structured_verb_buckets[L] \subseteq PoolIndices
        /\ \A L \in DOMAIN structured_noun_buckets :
              structured_noun_buckets[L] \subseteq PoolIndices

\* a table with an "[other]" verb, an empty noun and a bucket of two rows
C5_Witness ==
    /\ component = "selector"
    /\ \E i \in PoolIndices : in_context_data[i + 1].structured_verb = "[other]"
    /\ \E i \in PoolIndices : in_context_data[i + 1].structured_noun = ""
    /\ \E L \in DOMAIN structured_noun_buckets :
           Cardinality(structured_noun_buckets[L]) >= 2

\* floor(k * ratio) for the dataset's k and verb_noun_ratio
VerbShare ==
    (num_in_context_examples_per_sample * verb_noun_ratio[1])
        \div verb_noun_ratio[2]

\* C7: when the target's verb and noun bucket copies are disjoint and hold at
\* least floor(k * ratio) and k - floor(k * ratio) indices, the selection is
\* floor(k * ratio) indices of the verb copy and k - floor(k * ratio) of the
\* noun copy, the target (same pool) not among them; and an iteration that
\* finds one copy empty asks the other for the whole remaining need
C7_SplitByRatio ==
    component = "selector" =>
        \A w \in workers :
            /\ (/\ pc[w] = "done"
                /\ VerbPeers(w) \cap NounPeers(w) = {}
                /\ Cardinality(VerbPeers(w)) >= VerbShare
                /\ Cardinality(NounPeers(w)) >=
                       num_in_context_examples_per_sample - VerbShare) =>
                   /\ Cardinality(examples[w] \cap VerbPeers(w)) = VerbShare
                   /\ Cardinality(examples[w] \cap NounPeers(w)) =
                          num_in_context_examples_per_sample - VerbShare
                   /\ examples[w] \subseteq VerbPeers(w) \cup NounPeers(w)
                   /\ in_context_dir_is_none => index[w] \notin examples[w]
            /\ (requested[w].iterations > 0 /\ requested[w].verb_empty) =>
                   /\ requested[w].num_verb_examples = 0
                   /\ requested[w].num_noun_examples = requested[w].need
            /\ (requested[w].iterations > 0 /\ requested[w].noun_empty) =>
                   /\ requested[w].num_noun_examples = 0
                   /\ requested[w].num_verb_examples = requested[w].need

\* k = 2 and ratio 1/2 with disjoint, non-empty copies: one example of each
C7_Witness ==
    /\ component = "selector"
    /\ pc["w1"] = "done"
    /\ num_in_context_examples_per_sample = 2
    /\ verb_noun_ratio = <<1, 2>>
    /\ VerbPeers("w1") # {}
    /\ NounPeers("w1") # {}
    /\ VerbPeers("w1") \cap NounPeers("w1") = {}
    /\ Cardinality(examples["w1"] \cap VerbPeers("w1")) = 1
    /\ Cardinality(examples["w1"] \cap NounPeers("w1")) = 1

\* C8: the produced sequence ends with the target record and holds before it
\* each selected in-context example once and nothing else; with k = 0 it is
\* the target alone
C8_TargetLast ==
    component = "selector" =>
        \A w \in workers :
            pc[w] = "done" =>
                LET n == Len(items[w])
                IN  /\ n = Cardinality(examples[w]) + 1
                    /\ items[w][n] = Datapoint(index[w])
                    /\ {items[w][p] : p \in 1..(n - 1)} =
                           {InContextItem(i, in_context_dir_is_none) :
                               i \in examples[w]}
                    /\ num_in_context_examples_per_sample = 0 =>
                           items[w] = <<Datapoint(index[w])>>

\* two examples were put in descending order before the target
C8_Witness ==
    /\ component = "selector"
    /\ pc["w1"] = "done"
    /\ Len(items["w1"]) = 3
    /\ items["w1"][1].index > items["w1"][2].index
    /\ items["w1"][3] = Datapoint(index["w1"])

\* caller w takes one iteration of the while loop in this step
LoopIteration(w) ==
    /\ pc[w] = "loop"
    /\ requested'[w].iterations = requested[w].iterations + 1

\* C19, as stated: every iteration of the bucket-drawing loop strictly
\* shrinks the union of the two bucket copies or brings the examples to k
C19_UnionShrinksOrFull ==
    [][\A w \in workers :
          LoopIteration(w) =>
              \/ /\ (verb_bucket'[w] \cup noun_bucket'[w])
                         \subseteq (verb_bucket[w] \cup noun_bucket[w])
                 /\ (verb_bucket'[w] \cup noun_bucket'[w])
                         # (verb_bucket[w] \cup noun_bucket[w])
              \/ Cardinality(examples'[w])
                     = num_in_context_examples_per_sample]_vars

\* C19, amended: every iteration of the loop ends without an error and
\* strictly shrinks the verb copy or the noun copy, neither growing; so the
\* iterations made plus the sizes of the two copies never exceed the sizes
\* the copies started with, and the loop terminates
C19_CopiesShrink ==
    /\ [][\A w \in workers :
             LoopIteration(w) =>
                 /\ pc'[w] = "loop"
                 /\ verb_bucket'[w] \subseteq verb_bucket[w]
                 /\ noun_bucket'[w] \subseteq noun_bucket[w]
                 /\ Cardinality(verb_bucket'[w]) + Cardinality(noun_bucket'[w])
                        < Cardinality(verb_bucket[w])
                              + Cardinality(noun_bucket[w])]_vars
    /\ [](component = "selector" =>
              \A w \in workers :
                  pc[w] \in {"loop", "done"} =>
                      requested[w].iterations + Cardinality(verb_bucket[w])
                              + Cardinality(noun_bucket[w])
                          <= Cardinality(VerbPeers(w))
                                 + Cardinality(NounPeers(w)))

\* an iteration drew the whole verb copy; the noun copy still holds what it
\* held, all of it drawn already, and the examples are short of k
C19_Witness ==
    /\ component = "selector"
    /\ pc["w1"] = "loop"
    /\ requested["w1"].iterations = 1
    /\ verb_bucket["w1"] = {}
    /\ noun_bucket["w1"] # {}
    /\ noun_bucket["w1"] = NounPeers("w1")
    /\ noun_bucket["w1"] \subseteq examples["w1"]
    /\ Cardinality(examples["w1"]) < num_in_context_examples_per_sample

\* caller w passes from the while loop to the end of __getitem__ in this step
FillStep(w) == pc[w] = "loop" /\ pc'[w] = "done"

\* C20: the fill from the whole pool comes only after both bucket copies are
\* exhausted: a final selection with an index from neither bucket of the
\* target holds every index of both buckets (the target left out in the same
\* pool); and the fill draws only indices that are not the target (same
\* pool) and were not selected before, as many as are still needed or as
\* there are
C20_FillAfterBucketsExhausted ==
    /\ [](component = "selector" =>
              \A w \in workers :
                  (/\ pc[w] = "done"
                   /\ examples[w] \ (VerbPeers(w) \cup NounPeers(w)) # {}) =>
                      (VerbPeers(w) \cup NounPeers(w)) \subseteq examples[w])
    /\ [][\A w \in workers :
             FillStep(w) =>
                 LET fill == examples'[w] \ examples[w]
                     need == num_in_context_examples_per_sample
                                 - Cardinality(examples[w])
                     free == {i \in PoolIndices :
                                 /\ i \notin examples[w]
                                 /\ ~(in_context_dir_is_none /\ i = index[w])}
                 IN  /\ examples[w] \subseteq examples'[w]
                     /\ fill \subseteq free
                     /\ Cardinality(fill) = Min(need, Cardinality(free))
                     /\ fill # {} =>
                            /\ verb_bucket[w] = {}
                            /\ noun_bucket[w] = {}
                            /\ fill \cap (VerbPeers(w) \cup NounPeers(w)) = {}]_vars

\* with the main dataset as the pool and k = 2, a call ended with the one
\* index of the target's buckets and one index from outside them
C20_Witness ==
    /\ component = "selector"
    /\ in_context_dir_is_none
    /\ pc["w1"] = "done"
    /\ Cardinality(VerbPeers("w1") \cup NounPeers("w1")) = 1
    /\ (VerbPeers("w1") \cup NounPeers("w1")) \subseteq examples["w1"]
    /\ Cardinality(examples["w1"] \ (VerbPeers("w1") \cup NounPeers("w1"))) = 1
    /\ index["w1"] \notin examples["w1"]

\* C23: with an in-context pool of its own, no index is left out for being
\* equal to the target index: the bucket copies start as the whole buckets
\* of the target's labels, no call raises, the selection ends with exactly
\* min(k, pool size) distinct indices of the pool, and the items are
\* in-context records of the pool followed by the target record of the main
\* dataset
C23_SeparatePoolKeepsTargetIndex ==
    (component = "selector" /\ ~in_context_dir_is_none) =>
        \A w \in workers :
            /\ pc[w] # "ValueError"
            /\ (pc[w] = "loop" /\ requested[w].iterations = 0) =>
                   /\ verb_bucket[w] =
                          {i \in PoolIndices :
                              /\ in_context_data[i + 1].structured_verb
                                     = TargetRow(w).structured_verb
                              /\ TargetRow(w).structured_verb
                                     \notin {"", "[other]"}}
                   /\ noun_bucket[w] =
                          {i \in PoolIndices :
                              /\ in_context_data[i + 1].structured_noun
                                     = TargetRow(w).structured_noun
                              /\ TargetRow(w).structured_noun # ""}
            /\ pc[w] = "done" =>
                   /\ examples[w] \subseteq PoolIndices
                   /\ Cardinality(examples[w]) =
                          Min(num_in_context_examples_per_sample,
                              Len(in_context_data))
                   /\ items[w][Len(items[w])] =
                          [dataset |-> "_dataset", index |-> index[w]]
                   /\ \A p \in 1..(Len(items[w]) - 1) :
                          /\ items[w][p].dataset = "_in_context_dataset"
                          /\ items[w][p].index \in examples[w]

\* with a pool of its own of three rows and k = 2, a call ended with two
\* examples, one of them at the target's own index
C23_Witness ==
    /\ component = "selector"
    /\ ~in_context_dir_is_none
    /\ pc["w1"] = "done"
    /\ Len(in_context_data) = 3
    /\ Cardinality(examples["w1"]) = 2
    /\ index["w1"] \in examples["w1"]
    /\ items["w1"][1] = [dataset |-> "_in_context_dataset", index |-> index["w1"]]

----------------------------------------------------------------------------
(* Properties of the action filter *)

\* C9: filter_action returns true iff the action is not rejected, is valid
\* and its text matches the "C " pattern; the list built for the video holds
\* exactly the actions read so far that meet all three, so never a rejected one
C9_FilterAction ==
    component = "index" =>
        /\ scan_pos > 0 =>
               LET action == raw_actions[scan_pos]
               IN  last_filter <=>
                       /\ action.is_rejected = FALSE
                       /\ action.is_valid_action = TRUE
                       /\ CRegexMatch(action.narration_text)
        /\ Range(kept) =
               {q \in 0..(scan_pos - 1) :
                   /\ raw_actions[q + 1].is_rejected = FALSE
                   /\ raw_actions[q + 1].is_valid_action = TRUE
                   /\ CRegexMatch(raw_actions[q + 1].narration_text)}
        /\ \A p \in DOMAIN kept : ~raw_actions[kept[p] + 1].is_rejected
        /\ Len(kept) = Len(index_narrated_actions)

\* a rejected action that is valid and whose text matches was left out, and
\* another action was kept
C9_Witness ==
    /\ component = "index"
    /\ kept # <<>>
    /\ \E q \in 0..(scan_pos - 1) :
           /\ raw_actions[q + 1].is_rejected
           /\ raw_actions[q + 1].is_valid_action
           /\ CRegexMatch(raw_actions[q + 1].narration_text)
           /\ q \notin Range(kept)

\* C13, as stated: filter_action is total, and on a dict that lacks one of
\* the three keys it returns false
C13_FilterActionTotal ==
    (component = "filter_action" /\ fn_result # NoResult) =>
        LET action == fn_arg[1]
        IN  /\ fn_result.status = "returned"
            /\ (\/ action.is_rejected = Absent
                \/ action.is_valid_action = Absent
                \/ action.narration_text = Absent) => ~fn_result.value

\* C13, amended: filter_action raises KeyError exactly when a key it gets to
\* is absent (is_rejected always; is_valid_action when is_rejected is false;
\* narration_text when moreover is_valid_action is true); otherwise it
\* returns, and returns true exactly for an action not rejected, valid, and
\* whose text matches
C13_FilterActionRaisesOnAbsentKey ==
    (component = "filter_action" /\ fn_result # NoResult) =>
        LET action == fn_arg[1]
            reads_valid == action.is_rejected = Some(FALSE)
            reads_text == reads_valid /\ action.is_valid_action = Some(TRUE)
            raises == \/ action.is_rejected = Absent
                      \/ reads_valid /\ action.is_valid_action = Absent
                      \/ reads_text /\ action.narration_text = Absent
        IN  /\ fn_result.status = (IF raises THEN "KeyError" ELSE "returned")
            /\ fn_result.value <=>
                   /\ reads_text
                   /\ action.narration_text # Absent
                   /\ CRegexMatch(action.narration_text[1])

\* the call on a dict that is not rejected and lacks is_valid_action raised
C13_Witness ==
    /\ component = "filter_action"
    /\ fn_arg[1].is_rejected = Some(FALSE)
    /\ fn_arg[1].is_valid_action = Absent
    /\ fn_arg[1].narration_text # Absent
    /\ fn_result.status = "KeyError"

----------------------------------------------------------------------------
(* Properties of the video index *)

\* the narrated actions of a video, its annotated intervals one after another
RECURSIVE Concatenated(_, _)
Concatenated(annotated_intervals, j) ==
    IF j > Len(annotated_intervals) THEN <<>>
    ELSE annotated_intervals[j].narrated_actions
             \o Concatenated(annotated_intervals, j + 1)

\* C14: the index holds one record per video id of the split, in the order
\* of the split; the action list of a record is the subsequence of the
\* video's narrated actions, concatenated over its intervals, that pass
\* filter_action, in their order, and is as long as the number that pass
C14_IndexFollowsManifest ==
    component = "video_index" =>
        /\ Len(labeled_video_paths) <= Len(split_videos)
        /\ \A k \in DOMAIN labeled_video_paths :
               LET record == labeled_video_paths[k]
                   all == Concatenated(
                       annotations[split_videos[k]].annotated_intervals, 1)
                   passing == SelectSeq(all, FilterAction)
               IN  /\ record.video_uid = split_videos[k]
                   /\ Len(record.narrated_actions) =
                          Cardinality({p \in DOMAIN all : FilterAction(all[p])})
                   /\ record.narrated_actions =
                          [p \in DOMAIN passing |->
                              NarratedActionEntry(passing[p])]

\* the index of the split <<"b", "a">> is complete; video "b" has a rejected
\* action, and passing actions in both intervals whose narration times do
\* not ascend
C14_Witness ==
    /\ component = "video_index"
    /\ split_videos = <<"b", "a">>
    /\ Len(labeled_video_paths) = 2
    /\ Len(labeled_video_paths[1].narrated_actions) = 2
    /\ labeled_video_paths[1].narrated_actions[1].narration_timestamp_sec = 3
    /\ labeled_video_paths[1].narrated_actions[2].narration_timestamp_sec = 0
    /\ Len(annotations["b"].annotated_intervals[1].narrated_actions) = 2
    /\ Len(annotations["b"].annotated_intervals[2].narrated_actions) = 1

----------------------------------------------------------------------------
(* Properties of get_structured_noun *)

\* the frames of the action get_structured_noun was called on
ArgFrames == IF fn_arg[1].frames = None THEN <<>> ELSE fn_arg[1].frames[1]

\* the places <<frame, box>> of the boxes of those frames
BoxPlaces ==
    UNION {{<<f, b>> : b \in DOMAIN ArgFrames[f].boxes} : f \in DOMAIN ArgFrames}

\* the first place of a non-empty set of places, frames and boxes in order
FirstPlace(places) ==
    CHOOSE q \in places :
        \A r \in places : q[1] < r[1] \/ (q[1] = r[1] /\ q[2] <= r[2])

\* the label of the box at a place
LabelAt(place) == ArgFrames[place[1]].boxes[place[2]].structured_noun

\* C15, as stated: the derived noun label is that of the first box, over all
\* frames and their boxes in order, that is an object_of_change with a
\* non-empty label; without such a box, or without frames, there is none
C15_FirstObjectOfChange ==
    (component = "get_structured_noun" /\ fn_result # NoResult) =>
        LET places ==
                {q \in BoxPlaces :
                    /\ ArgFrames[q[1]].boxes[q[2]].object_type
                           = "object_of_change"
                    /\ LabelAt(q) \notin {None, Some("")}}
        IN  /\ fn_result.status = "returned"
            /\ fn_result.value =
                   (IF places = {} THEN None ELSE LabelAt(FirstPlace(places)))

\* C15, amended: the derived noun label is that of the first box, over the
\* frames of type "pnr_frame" and their boxes in order, that is an
\* object_of_change whose label is not None (the empty string is a label);
\* without such a box, or without frames, there is none
C15_FirstObjectOfChangeOfPnrFrames ==
    (component = "get_structured_noun" /\ fn_result # NoResult) =>
        LET places ==
                {q \in BoxPlaces :
                    /\ ArgFrames[q[1]].frame_type = "pnr_frame"
                    /\ ArgFrames[q[1]].boxes[q[2]].object_type
                           = "object_of_change"
                    /\ LabelAt(q) # None}
        IN  /\ fn_result.status = "returned"
            /\ fn_result.value =
                   (IF places = {} THEN None ELSE LabelAt(FirstPlace(places)))

\* the call passed over a labelled object_of_change box of a frame of
\* another type and returned the label of a later pnr_frame
C15_Witness ==
    /\ component = "get_structured_noun"
    /\ fn_result = Returned(Some("bowl"))
    /\ Len(ArgFrames) = 2
    /\ ArgFrames[1].frame_type = "pre_frame"
    /\ ArgFrames[1].boxes =
           <<[object_type |-> "object_of_change", structured_noun |-> Some("cup")]>>
    /\ ArgFrames[2].frame_type = "pnr_frame"

============================================================================
